---- MODULE Spec2Model ----
(***************************************************************************)
(* A model of examples/drake/generators.py: the data model (Pose, Conf,    *)
(* Trajectory), the stable-placement generator, the pick and pull          *)
(* synthesizers, the fluent-scoped motion planner and the collision test,  *)
(* all acting on one shared, mutable kinematics context.                   *)
(***************************************************************************)
EXTENDS Integers, Sequences, FiniteSets, TLC

\* ------------------------------------------------------------------ bounds

\* Largest max_failures a pick synthesizer is built with.
MaxFailuresBound == 3
\* Largest max_attempts a pull synthesizer is built with.
MaxAttemptsBound == 3
\* Longest joint path a planner returns.
MaxPathLen == 3

\* ------------------------------------------------- rigid transforms (S3)

\* Rigid transforms form a group under multiply; the model's group is the
\* symmetric group on three points, which is not commutative.
Transform == {<<1, 2, 3>>, <<2, 3, 1>>, <<3, 1, 2>>,
              <<2, 1, 3>>, <<1, 3, 2>>, <<3, 2, 1>>}

Identity == <<1, 2, 3>>

Rot == <<2, 3, 1>>

Flip == <<2, 1, 3>>

\* a.multiply(b)
Mul(a, b) == <<a[b[1]], a[b[2]], a[b[3]]>>

\* a.inverse()
Inv(a) == CHOOSE b \in Transform : Mul(a, b) = Identity

\* ------------------------------------------------------------ the plant

RobotJoints == <<"j1", "j2">>

DoorJoints == <<"d1">>

GripperJoints == <<"g1">>

Joints == {"j1", "j2", "d1", "g1"}

\* Joint positions: a revolute joint turns in steps of a third of a turn.
Pos == 0 .. 2

Objects == {"A", "B"}

Models == {"robot", "gripper"} \cup Objects

\* Frames a Pose can hang from: the world frame, the gripper's base body
\* frame, and the base body frame of an object.
Frames == {"world", "gripper"} \cup Objects

FixedBodies == {"table"}

\* joint.child_body()
JointChildBody(j) ==
    CASE j = "j1" -> "link1"
      [] j = "j2" -> "link2"
      [] j = "d1" -> "door"
      [] j = "g1" -> "finger"

\* get_model_bodies(mbp, model)
GetModelBodies(m) ==
    CASE m = "robot" -> {"link1", "link2"}
      [] m = "gripper" -> {"wsg", "finger"}
      [] m = "A" -> {"A_body"}
      [] m = "B" -> {"B_body"}

\* bodies_from_models(mbp, models)
BodiesFromModels(models) == UNION {GetModelBodies(m) : m \in models}

\* The transform a revolute joint at position v contributes.
JointTransform(v) ==
    CASE v % 3 = 0 -> Identity
      [] v % 3 = 1 -> Rot
      [] v % 3 = 2 -> Mul(Rot, Rot)

\* Forward kinematics of the mover: the world pose of its last link, to
\* which the gripper is welded.
GripperFK(q) == Mul(JointTransform(q["j1"]), JointTransform(q["j2"]))

\* The kinematics context: joint positions and free-body world poses.
Contexts == [q : [Joints -> Pos], pose : [Objects -> Transform]]

\* get_relative_transform(mbp, context, frame): the frame's world pose.
GetRelativeTransform(ctx, frame) ==
    CASE frame = "world" -> Identity
      [] frame = "gripper" -> GripperFK(ctx.q)
      [] frame \in Objects -> ctx.pose[frame]

\* set_world_pose(mbp, context, model, pose)
SetWorldPose(ctx, model, pose) == [ctx EXCEPT !.pose[model] = pose]

\* set_joint_position(joint, context, position)
SetJointPosition(ctx, joint, position) == [ctx EXCEPT !.q[joint] = position]

\* ---------------------------------------------------------------- Conf

AssertionError == [tag |-> "AssertionError"]

ConfInitUnchecked(joints, positions) ==
    [tag |-> "Conf", joints |-> joints, positions |-> positions]

\* Conf.__init__
ConfInit(joints, positions) ==
    IF Len(joints) = Len(positions)
    THEN [tag |-> "Conf", joints |-> joints, positions |-> positions]
    ELSE AssertionError

\* Conf.bodies
ConfBodies(conf) == {JointChildBody(conf.joints[i]) : i \in DOMAIN conf.joints}

Min(a, b) == IF a <= b THEN a ELSE b

RECURSIVE ConfAssignFrom(_, _, _)
ConfAssignFrom(ctx, conf, i) ==
    IF i > Min(Len(conf.joints), Len(conf.positions))
    THEN ctx
    ELSE ConfAssignFrom(SetJointPosition(ctx, conf.joints[i], conf.positions[i]),
                        conf, i + 1)

\* Conf.assign
ConfAssign(ctx, conf) == ConfAssignFrom(ctx, conf, 1)

\* ---------------------------------------------------------------- Pose

\* Pose.__init__
PoseInit(parent, child, transform) ==
    [tag |-> "Pose", parent |-> parent, child |-> child, transform |-> transform]

\* Pose.bodies
PoseBodies(pose) == GetModelBodies(pose.child)

PoseAssignFromChild(ctx, pose) ==
    SetWorldPose(ctx, pose.child,
                 Mul(GetRelativeTransform(ctx, pose.child), pose.transform))

\* Pose.assign
PoseAssign(ctx, pose) ==
    LET parent_pose == GetRelativeTransform(ctx, pose.parent)
        child_pose == Mul(parent_pose, pose.transform)
    IN SetWorldPose(ctx, pose.child, child_pose)

\* ---------------------------------------------------------- Trajectory

\* Some element of the sequence is not a Conf: its construction raised.
AnyRaised(confs) == \E i \in DOMAIN confs : confs[i] = AssertionError

\* Trajectory.__init__, consuming the generator of Confs it is given: the
\* first Conf whose construction raises ends the construction.
TrajectoryInit(confs, attachments) ==
    IF AnyRaised(confs)
    THEN AssertionError
    ELSE [tag |-> "Trajectory", path |-> confs, attachments |-> attachments]

\* Trajectory(Conf(joints, q) for q in path)
TrajectoryFromPath(joints, path) ==
    TrajectoryInit([i \in DOMAIN path |-> ConfInit(joints, path[i])], <<>>)

\* Trajectory.joints
TrajectoryJoints(traj) == traj.path[1].joints

\* Trajectory.bodies
TrajectoryBodies(traj) ==
    {JointChildBody(TrajectoryJoints(traj)[i]) : i \in DOMAIN TrajectoryJoints(traj)}
        \cup UNION {PoseBodies(traj.attachments[i]) : i \in DOMAIN traj.attachments}

\* ---------------------------------------------------- external planners

NoneVal == [tag |-> "None"]

\* Joint-space configurations of a joint list: one position per joint.
Configs(joints) == [1 .. Len(joints) -> Pos]

Max(a, b) == IF a >= b THEN a ELSE b

\* interpolate_translation(grasp_pose, approach_vector, step_size): the
\* gripper's approach path, from the offset pose to the grasp pose.
ApproachOffset == Rot

InterpolateTranslation(grasp_pose) ==
    <<Mul(grasp_pose, ApproachOffset), grasp_pose>>

\* The inverse-kinematics solutions of one gripper pose.
IKSolutions(gripper_pose) ==
    {q \in Configs(RobotJoints) :
        Mul(JointTransform(q[1]), JointTransform(q[2])) = gripper_pose}

\* What an external planner hands back: None, or a value.
Some(v) == [tag |-> "Some", val |-> v]

\* plan_workspace_motion(mbp, joints, gripper_frame, gripper_path, ...): one
\* outcome is no result; the others give one IK solution per gripper pose,
\* in the order of the path it is given.
PlanWorkspaceMotion(gripper_path) ==
    {NoneVal} \cup
    {Some(w) : w \in
        {w \in [1 .. Len(gripper_path) -> Configs(RobotJoints)] :
            \A i \in 1 .. Len(gripper_path) : w[i] \in IKSolutions(gripper_path[i])}}

\* How a path of n configurations runs through m waypoints, in order.
IndexMaps(m, n) ==
    {f \in [1 .. n -> 1 .. m] :
        /\ f[1] = 1
        /\ f[n] = m
        /\ \A i \in 1 .. n - 1 : f[i + 1] \in {f[i], f[i] + 1}}

\* plan_waypoints_joint_motion(joints, waypoints, ...): no result, or a
\* joint path that starts at the first waypoint, visits the waypoints in
\* order and ends at the last one.
PlanWaypointsJointMotion(waypoints) ==
    {NoneVal} \cup
    {Some([i \in DOMAIN f |-> waypoints[f[i]]]) :
        f \in UNION {IndexMaps(Len(waypoints), n) :
                        n \in Len(waypoints) .. Max(MaxPathLen, Len(waypoints))}}

\* --------------------------------------------------------------- state

VARIABLES
    ctx,    \* the shared kinematics context
    heap,   \* the Conf and Trajectory objects built by direct construction
    pick,   \* the running call of the pick synthesizer (get_ik_fn.fn)
    pull,   \* the running call of the pull synthesizer (get_pull_fn.fn)
    iter,   \* the generators made by Trajectory.iterate
    mot,    \* the call of the motion planner (get_motion_fn.fn)
    tst,    \* the call of the collision test (get_collision_test.test)
    sgen,   \* the generator made by get_stable_gen.gen
    pa      \* the Pose.assign calls made in a row

vars == <<ctx, heap, pick, pull, iter, mot, tst, sgen, pa>>

\* The context a task starts from.
InitContext ==
    [q |-> [j \in Joints |-> 0], pose |-> [o \in Objects |-> Flip]]

Idle == [pc |-> "idle"]

\* ------------------------------------------------- pick: get_ik_fn.fn

\* grasp_pose = pose.transform.multiply(grasp.transform.inverse())
GraspPose(pose, grasp) == Mul(pose.transform, Inv(grasp.transform))

\* The placements and grasps a pick is asked for.
PickPoses == {PoseInit("world", "A", t) : t \in {Identity, Rot, Flip}}

PickGrasps == {PoseInit("gripper", "A", t) : t \in {Identity, Flip}}

PickLoopCondOffByOne(attempts, last_success, max_failures) ==
    (attempts - last_success) <= max_failures

\* while (attempts - last_success) < max_failures
PickLoopCond(attempts, last_success, max_failures) ==
    (attempts - last_success) < max_failures

\* fn's entry: the approach path, attempts = 0, last_success = 0.
PickEnter(max_failures, pose, grasp) ==
    [pc |-> "loop",
     max_failures |-> max_failures,
     gripper_path |-> InterpolateTranslation(GraspPose(pose, grasp)),
     attempts |-> 0,
     last_success |-> 0,
     outcomes |-> <<>>,
     result |-> NoneVal]

PickOnSuccessKeepLooping(p, path) ==
    LET traj == TrajectoryFromPath(RobotJoints, path)
    IN [p EXCEPT !.last_success = p.attempts,
                 !.result = [tag |-> "PickResult",
                             conf |-> traj.path[Len(traj.path)],
                             traj |-> traj]]

\* traj = Trajectory(...); last_success = attempts; return traj.path[-1], traj
PickOnSuccess(p, path) ==
    LET traj == TrajectoryFromPath(RobotJoints, path)
    IN [p EXCEPT !.last_success = p.attempts,
                 !.result = [tag |-> "PickResult",
                             conf |-> traj.path[Len(traj.path)],
                             traj |-> traj],
                 !.pc = "returned"]

PickBodySurfacing(p, waypoints, path) ==
    LET q == [p EXCEPT !.attempts = p.attempts + 1]
    IN IF waypoints = NoneVal
       THEN [q EXCEPT !.outcomes = Append(@, "no_waypoints"),
                      !.result = [tag |-> "IKFailure"],
                      !.pc = "returned"]
       ELSE IF path = NoneVal
       THEN [q EXCEPT !.outcomes = Append(@, "no_path")]
       ELSE PickOnSuccess([q EXCEPT !.outcomes = Append(@, "success")], path.val)

\* One pass of the loop body, given what the two planners hand back.
PickBody(p, waypoints, path) ==
    LET q == [p EXCEPT !.attempts = p.attempts + 1]
    IN IF waypoints = NoneVal
       THEN [q EXCEPT !.outcomes = Append(@, "no_waypoints")]
       ELSE IF path = NoneVal
       THEN [q EXCEPT !.outcomes = Append(@, "no_path")]
       ELSE PickOnSuccess([q EXCEPT !.outcomes = Append(@, "success")], path.val)

\* No synchronous call is running: the program has one thread.
NoCall == pick.pc = "idle" /\ pull.pc = "idle" /\ mot.pc = "idle" /\ tst.pc = "idle"

PickCall ==
    /\ NoCall
    /\ \E mf \in 0 .. MaxFailuresBound, pose \in PickPoses, grasp \in PickGrasps :
          pick' = PickEnter(mf, pose, grasp)
    /\ UNCHANGED <<ctx, heap, pull, iter, mot, tst, sgen, pa>>

PickAttempt ==
    /\ pick.pc = "loop"
    /\ PickLoopCond(pick.attempts, pick.last_success, pick.max_failures)
    /\ \E w \in PlanWorkspaceMotion(pick.gripper_path) :
          IF w = NoneVal
          THEN pick' = PickBody(pick, w, NoneVal)
          ELSE \E path \in PlanWaypointsJointMotion(w.val) :
                  pick' = PickBody(pick, w, path)
    /\ UNCHANGED <<ctx, heap, pull, iter, mot, tst, sgen, pa>>

\* The loop condition fails: fn falls off its end and returns None.
PickExhaust ==
    /\ pick.pc = "loop"
    /\ ~PickLoopCond(pick.attempts, pick.last_success, pick.max_failures)
    /\ pick' = [pick EXCEPT !.pc = "returned", !.result = NoneVal]
    /\ UNCHANGED <<ctx, heap, pull, iter, mot, tst, sgen, pa>>

\* The caller takes the result.
PickReturn ==
    /\ pick.pc = "returned"
    /\ pick' = Idle
    /\ UNCHANGED <<ctx, heap, pull, iter, mot, tst, sgen, pa>>

\* ------------------------------------------------ pull: get_pull_fn.fn

DoorNames == {"left_door", "right_door", "panel"}

\* get_body_pose(context, door_body): the door turns about its hinge.
DoorHinge == Identity

GetDoorPose(c) == Mul(DoorHinge, JointTransform(c.q["d1"]))

\* box_from_geom[model, door_name, i]: the shape tag of the i-th geometry.
HandleShape(door_name, i) ==
    CASE door_name = "left_door" -> <<"box", "cylinder">>[i]
      [] door_name = "right_door" -> <<"cylinder", "box">>[i]
      [] door_name = "panel" -> <<"box", "box">>[i]

\* box_from_geom[model, door_name, i]: the geometry's local offset.
HandleFromBox(door_name, i) ==
    IF door_name = "left_door" THEN Rot ELSE Flip

\* get_box_grasps(handle_aabb, orientations=[index], ...): its one grasp.
GripperFromBox == Mul(Rot, Rot)

Abs(x) == IF x < 0 THEN -x ELSE x

MaxOf(S) == CHOOSE x \in S : \A y \in S : y <= x

\* get_extend_fn(joints, resolutions)(q1, q2): the configurations after q1
\* up to q2, one resolution step apart.
ExtendFn(q1, q2) ==
    LET n == MaxOf({0} \cup {Abs(q2[j] - q1[j]) : j \in DOMAIN q1})
    IN [i \in 1 .. n |-> [j \in DOMAIN q1 |-> q1[j] + ((i * (q2[j] - q1[j])) \div n)]]

\* door_joint_path = [dq1.positions] + list(extend_fn(dq1.positions, dq2.positions))
DoorJointPath(dq1, dq2) == <<dq1.positions>> \o ExtendFn(dq1.positions, dq2.positions)

\* set_joint_positions(joints, context, positions)
SetJointPositions(c, joints, positions) ==
    ConfAssignFrom(c, [joints |-> joints, positions |-> positions], 1)

RECURSIVE DoorSweepContextShort(_, _, _, _)
DoorSweepContextShort(c, door_joints, door_joint_path, k) ==
    IF k <= 1
    THEN c
    ELSE SetJointPositions(DoorSweepContextShort(c, door_joints, door_joint_path, k - 1),
                           door_joints, door_joint_path[k - 1])

\* The context after the sweep has set the first k door configurations.
RECURSIVE DoorSweepContext(_, _, _, _)
DoorSweepContext(c, door_joints, door_joint_path, k) ==
    IF k = 0
    THEN c
    ELSE SetJointPositions(DoorSweepContext(c, door_joints, door_joint_path, k - 1),
                           door_joints, door_joint_path[k])

\* door_cartesian_path: the door's world pose at every swept configuration.
DoorCartesianPath(c, door_joints, door_joint_path) ==
    [k \in 1 .. Len(door_joint_path) |->
        GetDoorPose(DoorSweepContext(c, door_joints, door_joint_path, k))]

\* The index (from 0) of the first of the two geometries with the shape,
\* or 2 when the for loop ends without a break.
HandleIndex(door_name, shape) ==
    IF HandleShape(door_name, 1) = shape THEN 0
    ELSE IF HandleShape(door_name, 2) = shape THEN 1
    ELSE 2

\* gripper_from_obj = gripper_from_box.multiply(handle_from_box.inverse())
GripperFromObj(door_name) ==
    Mul(GripperFromBox,
        Inv(HandleFromBox(door_name, HandleIndex(door_name, "cylinder") + 1)))

\* pull_cartesian_path = [body_pose.multiply(gripper_from_obj.inverse()) ...]
PullCartesianPath(door_cartesian_path, gripper_from_obj) ==
    [k \in DOMAIN door_cartesian_path |->
        Mul(door_cartesian_path[k], Inv(gripper_from_obj))]

\* reversed(xs), xs[::-1]
Reverse(xs) == [k \in 1 .. Len(xs) |-> xs[Len(xs) + 1 - k]]

RuntimeError == [tag |-> "RuntimeError"]

\* fn's entry, up to the retry loop.
PullEnter(c, max_attempts, door_name, dq1, dq2) ==
    LET door_joints == dq1.joints
        door_joint_path == DoorJointPath(dq1, dq2)
        door_cartesian_path == DoorCartesianPath(c, door_joints, door_joint_path)
    IN IF HandleIndex(door_name, "cylinder") = 2
       THEN [pc |-> "returned", result |-> RuntimeError,
             max_attempts |-> max_attempts, door_joints |-> door_joints,
             door_joint_path |-> door_joint_path,
             pull_cartesian_path |-> <<>>, attempts |-> 0, outcomes |-> <<>>]
       ELSE [pc |-> "loop", result |-> NoneVal,
             max_attempts |-> max_attempts, door_joints |-> door_joints,
             door_joint_path |-> door_joint_path,
             pull_cartesian_path |->
                 PullCartesianPath(door_cartesian_path, GripperFromObj(door_name)),
             attempts |-> 0, outcomes |-> <<>>]

PullLoopCondOffByOne(attempts, max_attempts) == attempts <= max_attempts

\* for _ in range(max_attempts)
PullLoopCond(attempts, max_attempts) == attempts < max_attempts

\* zip(xs, ys)
Zip(xs, ys) == [k \in 1 .. Min(Len(xs), Len(ys)) |-> <<xs[k], ys[k]>>]

CombinedWaypointsCrossed(pull_joint_waypoints, door_joint_path) ==
    LET z == Zip(pull_joint_waypoints, Reverse(door_joint_path))
    IN [k \in DOMAIN z |-> z[k][1] \o z[k][2]]

\* combined_waypoints = [list(rq) + list(dq) for rq, dq in zip(...)]
CombinedWaypoints(pull_joint_waypoints, door_joint_path) ==
    LET z == Zip(pull_joint_waypoints, door_joint_path)
    IN [k \in DOMAIN z |-> z[k][1] \o z[k][2]]

PullBodyFreeRetry(p, waypoints, path) ==
    LET q == [p EXCEPT !.attempts = p.attempts + 1]
    IN IF waypoints = NoneVal
       THEN [q EXCEPT !.outcomes = Append(@, "no_waypoints")]
       ELSE IF path = NoneVal
       THEN [p EXCEPT !.outcomes = Append(@, "no_path")]
       ELSE LET pull_joint_waypoints == Reverse(waypoints.val)
                rq1 == ConfInit(RobotJoints, pull_joint_waypoints[1])
                rq2 == ConfInit(RobotJoints,
                                pull_joint_waypoints[Len(pull_joint_waypoints)])
                combined_joints == RobotJoints \o p.door_joints
                traj == TrajectoryFromPath(combined_joints, path.val)
            IN [q EXCEPT !.outcomes = Append(@, "success"),
                         !.result = [tag |-> "PullResult", rq1 |-> rq1,
                                     rq2 |-> rq2, traj |-> traj],
                         !.pc = "returned"]

\* One pass of the loop body, given what the two planners hand back;
\* waypoints are those solved over reversed(pull_cartesian_path).
PullBody(p, waypoints, path) ==
    LET q == [p EXCEPT !.attempts = p.attempts + 1]
    IN IF waypoints = NoneVal
       THEN [q EXCEPT !.outcomes = Append(@, "no_waypoints")]
       ELSE IF path = NoneVal
       THEN [q EXCEPT !.outcomes = Append(@, "no_path")]
       ELSE LET pull_joint_waypoints == Reverse(waypoints.val)
                rq1 == ConfInit(RobotJoints, pull_joint_waypoints[1])
                rq2 == ConfInit(RobotJoints,
                                pull_joint_waypoints[Len(pull_joint_waypoints)])
                combined_joints == RobotJoints \o p.door_joints
                traj == TrajectoryFromPath(combined_joints, path.val)
            IN [q EXCEPT !.outcomes = Append(@, "success"),
                         !.result = [tag |-> "PullResult", rq1 |-> rq1,
                                     rq2 |-> rq2, traj |-> traj],
                         !.pc = "returned"]

\* The door configurations a pull is asked for.
DoorConfs == {ConfInit(DoorJoints, <<v>>) : v \in Pos}

PullCall ==
    /\ NoCall
    /\ \E ma \in 0 .. MaxAttemptsBound, door_name \in DoorNames,
          dq1 \in DoorConfs, dq2 \in DoorConfs :
          /\ pull' = PullEnter(ctx, ma, door_name, dq1, dq2)
          /\ ctx' = DoorSweepContext(ctx, dq1.joints, DoorJointPath(dq1, dq2),
                                     Len(DoorJointPath(dq1, dq2)))
    /\ UNCHANGED <<heap, pick, iter, mot, tst, sgen>>
    /\ pa' = Idle

PullAttempt ==
    /\ pull.pc = "loop"
    /\ PullLoopCond(pull.attempts, pull.max_attempts)
    /\ \E w \in PlanWorkspaceMotion(Reverse(pull.pull_cartesian_path)) :
          IF w = NoneVal
          THEN pull' = PullBody(pull, w, NoneVal)
          ELSE \E path \in PlanWaypointsJointMotion(
                              CombinedWaypoints(Reverse(w.val), pull.door_joint_path)) :
                  pull' = PullBody(pull, w, path)
    /\ UNCHANGED <<ctx, heap, pick, iter, mot, tst, sgen, pa>>

\* The for loop runs out: fn falls off its end and returns None.
PullExhaust ==
    /\ pull.pc = "loop"
    /\ ~PullLoopCond(pull.attempts, pull.max_attempts)
    /\ pull' = [pull EXCEPT !.pc = "returned", !.result = NoneVal]
    /\ UNCHANGED <<ctx, heap, pick, iter, mot, tst, sgen, pa>>

\* The caller takes the result.
PullReturn ==
    /\ pull.pc = "returned"
    /\ pull' = Idle
    /\ UNCHANGED <<ctx, heap, pick, iter, mot, tst, sgen, pa>>

\* ------------------------------------------------------ specifications

Init ==
    /\ ctx = InitContext
    /\ heap = [objs |-> {}, last |-> NoneVal, mismatch |-> FALSE]
    /\ pick = Idle
    /\ pull = Idle
    /\ iter = Idle
    /\ mot = Idle
    /\ tst = Idle
    /\ sgen = Idle
    /\ pa = Idle

NextRetry ==
    \/ PickCall
    \/ PickAttempt
    \/ PickExhaust
    \/ PickReturn
    \/ PullCall
    \/ PullAttempt
    \/ PullExhaust
    \/ PullReturn

\* A call that has started runs on: every external routine returns, and
\* the single thread takes the loop's next step.
SpecRetry ==
    /\ Init
    /\ [][NextRetry]_vars
    /\ WF_vars(PickAttempt)
    /\ WF_vars(PickExhaust)
    /\ WF_vars(PullAttempt)
    /\ WF_vars(PullExhaust)

\* ------------------------------------------------- Trajectory.iterate

\* The generators a caller holds on one Trajectory at a time.
GenIds == {1, 2}

\* The grasp of A in the gripper, and B resting on A.
GraspOfA == PoseInit("gripper", "A", Flip)

BOnA == PoseInit("A", "B", Rot)

\* The attachment lists of the trajectories stepped through.
IterAttachments == {<<>>, <<GraspOfA>>, <<GraspOfA, BOnA>>, <<BOnA, GraspOfA>>}

\* The configurations of the paths stepped through.
IterConfs == {ConfInit(RobotJoints, <<v, 0>>) : v \in {1, 2}}

IterPaths == UNION {[1 .. n -> IterConfs] : n \in 1 .. MaxPathLen}

PathTailFromStart(path) == path

\* self.path[1:]
PathTail(path) == SubSeq(path, 2, Len(path))

\* traj.iterate(context): a generator that has run no code yet.
IterateInit(traj, seen) ==
    [state |-> "suspended", rest |-> PathTail(traj.path), yields |-> 0,
     log |-> <<>>, seen |-> seen]

NoGenerator == [state |-> "none"]

IterateStepOpsAttachFirst(conf, attachments) ==
    [i \in 1 .. Len(attachments) |-> [op |-> "Pose.assign", arg |-> attachments[i]]]
        \o <<[op |-> "Conf.assign", arg |-> conf]>>

\* The assignments of one pass of iterate's loop, in the order made:
\* conf.assign(context), then attach.assign(context) for each attachment.
IterateStepOps(conf, attachments) ==
    <<[op |-> "Conf.assign", arg |-> conf]>>
        \o [i \in 1 .. Len(attachments) |-> [op |-> "Pose.assign", arg |-> attachments[i]]]

\* The context after the first k of the assignments.
RECURSIVE ApplyOps(_, _, _)
ApplyOps(c, ops, k) ==
    IF k = 0
    THEN c
    ELSE LET before == ApplyOps(c, ops, k - 1)
         IN IF ops[k].op = "Conf.assign"
            THEN ConfAssign(before, ops[k].arg)
            ELSE PoseAssign(before, ops[k].arg)

\* A Trajectory is built and kept by the caller.
IterNew ==
    /\ NoCall
    /\ iter.pc = "idle"
    /\ \E path \in IterPaths, attachments \in IterAttachments :
          iter' = [pc |-> "held",
                   traj |-> TrajectoryInit(path, attachments),
                   gens |-> [g \in GenIds |-> NoGenerator]]
    /\ UNCHANGED <<ctx, heap, pick, pull, mot, tst, sgen, pa>>

\* The most steps a generator on the held Trajectory has taken.
StepsTaken(gens) ==
    MaxOf({0} \cup {gens[g].yields : g \in {h \in GenIds : gens[h].state # "none"}})

\* traj.iterate(context)
IterateCall(g) ==
    /\ NoCall
    /\ iter.pc = "held"
    /\ iter' = [iter EXCEPT !.gens[g] = IterateInit(iter.traj, StepsTaken(iter.gens))]
    /\ UNCHANGED <<ctx, heap, pick, pull, mot, tst, sgen, pa>>

\* next(generator): one pass of the loop up to its yield, or the end of
\* the loop (StopIteration).
IterateNext(g) ==
    /\ NoCall
    /\ iter.pc = "held"
    /\ iter.gens[g].state = "suspended"
    /\ LET gen == iter.gens[g]
       IN IF gen.rest = <<>>
          THEN /\ iter' = [iter EXCEPT !.gens[g].state = "done"]
               /\ ctx' = ctx
          ELSE LET ops == IterateStepOps(Head(gen.rest), iter.traj.attachments)
               IN /\ ctx' = ApplyOps(ctx, ops, Len(ops))
                  /\ iter' = [iter EXCEPT !.gens[g].rest = Tail(gen.rest),
                                          !.gens[g].yields = gen.yields + 1,
                                          !.gens[g].log = ops]
    /\ UNCHANGED <<heap, pick, pull, mot, tst, sgen>>
    /\ pa' = Idle

\* The caller lets go of the Trajectory and its generators.
IterDrop ==
    /\ iter.pc = "held"
    /\ iter' = Idle
    /\ UNCHANGED <<ctx, heap, pick, pull, mot, tst, sgen, pa>>

NextIter ==
    \/ IterNew
    \/ \E g \in GenIds : IterateCall(g)
    \/ \E g \in GenIds : IterateNext(g)
    \/ IterDrop

SpecIter == Init /\ [][NextIter]_vars

\* -------------------------------------- motion planner: get_motion_fn.fn

\* Longest fluent list a motion call is given.
MaxFluents == 2

\* The facts of the fluent lists: the closed vocabulary, and a fact of a
\* predicate outside it.
GraspOfB == PoseInit("gripper", "B", Identity)

MotionFacts ==
    {<<"atconf", "door", ConfInit(DoorJoints, <<1>>)>>,
     <<"atconf", "robot", ConfInit(RobotJoints, <<1, 0>>)>>,
     <<"atpose", "A", PoseInit("world", "A", Rot)>>,
     <<"atpose", "B", PoseInit("world", "B", Identity)>>,
     <<"atgrasp", "robot", "A", GraspOfA>>,
     <<"atgrasp", "robot", "B", GraspOfB>>,
     <<"holding", "robot", "A">>}

FluentLists == UNION {[1 .. n -> MotionFacts] : n \in 0 .. MaxFluents}

\* raise ValueError(predicate)
ValueError(predicate) == [tag |-> "ValueError", predicate |-> predicate]

MotionUnknownIgnored(st, predicate) == st

\* else: raise ValueError(predicate)
MotionUnknown(st, predicate) == [st EXCEPT !.err = ValueError(predicate)]

MotionFactConfNotAssigned(st, fact) ==
    LET predicate == fact[1]
    IN IF predicate = "atconf"
       THEN LET conf == fact[3]
            IN [st EXCEPT !.obstacles = @ \cup ConfBodies(conf)]
       ELSE IF predicate = "atpose"
       THEN LET pose == fact[3]
            IN [st EXCEPT !.c = PoseAssign(st.c, pose),
                          !.log = Append(@, [op |-> "Pose.assign", arg |-> pose]),
                          !.obstacles = @ \cup PoseBodies(pose)]
       ELSE IF predicate = "atgrasp"
       THEN LET grasp == fact[4]
            IN [st EXCEPT !.attachments = Append(@, grasp),
                          !.moving = @ \cup PoseBodies(grasp)]
       ELSE MotionUnknown(st, predicate)

\* One pass of the loop over the fluents.
MotionFact(st, fact) ==
    LET predicate == fact[1]
    IN IF predicate = "atconf"
       THEN LET conf == fact[3]
            IN [st EXCEPT !.c = ConfAssign(st.c, conf),
                          !.log = Append(@, [op |-> "Conf.assign", arg |-> conf]),
                          !.obstacles = @ \cup ConfBodies(conf)]
       ELSE IF predicate = "atpose"
       THEN LET pose == fact[3]
            IN [st EXCEPT !.c = PoseAssign(st.c, pose),
                          !.log = Append(@, [op |-> "Pose.assign", arg |-> pose]),
                          !.obstacles = @ \cup PoseBodies(pose)]
       ELSE IF predicate = "atgrasp"
       THEN LET grasp == fact[4]
            IN [st EXCEPT !.attachments = Append(@, grasp),
                          !.moving = @ \cup PoseBodies(grasp)]
       ELSE MotionUnknown(st, predicate)

\* The loop over the fluents, after its first k facts; a raise ends it.
RECURSIVE MotionFluents(_, _, _)
MotionFluents(st, fluents, k) ==
    IF k = 0
    THEN st
    ELSE LET before == MotionFluents(st, fluents, k - 1)
         IN IF before.err # NoneVal THEN before ELSE MotionFact(before, fluents[k])

MotionObstaclesKept(obstacles, moving) == obstacles

\* obstacles -= moving
MotionObstacles(obstacles, moving) == obstacles \ moving

\* product(moving, obstacles) if collisions else set()
MotionCollisionPairs(moving, obstacles, collisions) ==
    IF collisions THEN moving \X obstacles ELSE {}

\* open_wsg50_gripper(mbp, context, gripper): the finger joint, opened.
GripperOpen == 1

OpenWsg50Gripper(c) == SetJointPositions(c, GripperJoints, <<GripperOpen>>)

\* plan_joint_motion(joints, start, end, ...): no result, or a joint path
\* from start to end.
PlanJointMotion(start, end) == PlanWaypointsJointMotion(<<start, end>>)

\* fn, from its entry to its return or raise, given what the joint planner
\* hands back when it is called.
MotionFn(c, collisions, conf1, conf2, fluents, planned) ==
    LET joints == RobotJoints
        entry == [c |-> c,
                  moving |-> BodiesFromModels({"robot", "gripper"}),
                  obstacles |-> FixedBodies,
                  attachments |-> <<>>,
                  log |-> <<>>,
                  err |-> NoneVal]
        st == MotionFluents(entry, fluents, Len(fluents))
        obstacles == MotionObstacles(st.obstacles, st.moving)
        c1 == OpenWsg50Gripper(st.c)
        c2 == SetJointPositions(c1, joints, conf1.positions)
    IN IF st.err # NoneVal
       THEN [pc |-> "returned", fluents |-> fluents, collisions |-> collisions,
             c |-> st.c, moving |-> st.moving, obstacles |-> st.obstacles,
             attachments |-> st.attachments, collision_pairs |-> {},
             log |-> st.log, result |-> st.err]
       ELSE [pc |-> "returned", fluents |-> fluents, collisions |-> collisions,
             c |-> c2, moving |-> st.moving, obstacles |-> obstacles,
             attachments |-> st.attachments,
             collision_pairs |-> MotionCollisionPairs(st.moving, obstacles, collisions),
             log |-> st.log \o <<[op |-> "open_wsg50_gripper", arg |-> GripperOpen],
                                 [op |-> "set_joint_positions", arg |-> conf1.positions],
                                 [op |-> "plan_joint_motion",
                                  arg |-> <<conf1.positions, conf2.positions>>]>>,
             result |-> IF planned = NoneVal
                        THEN NoneVal
                        ELSE [tag |-> "MotionResult",
                              traj |-> TrajectoryFromPath(joints, planned.val)]]

MotionCall ==
    /\ NoCall
    /\ \E collisions \in BOOLEAN, conf1 \in IterConfs, conf2 \in IterConfs,
          fluents \in FluentLists :
          \E planned \in PlanJointMotion(conf1.positions, conf2.positions) :
             LET m == MotionFn(ctx, collisions, conf1, conf2, fluents, planned)
             IN /\ mot' = [x \in DOMAIN m \ {"c"} |-> m[x]]
                /\ ctx' = m.c
    /\ UNCHANGED <<heap, pick, pull, iter, tst, sgen>>
    /\ pa' = Idle

\* The caller takes the result, or the error unwinds.
MotionReturn ==
    /\ mot.pc = "returned"
    /\ mot' = Idle
    /\ UNCHANGED <<ctx, heap, pick, pull, iter, tst, sgen, pa>>

NextMotion ==
    \/ MotionCall
    \/ MotionReturn

SpecMotion == Init /\ [][NextMotion]_vars

\* ------------------------------------------- the collision collaborator

\* Where the fixed table stands.
TablePose == Identity

\* The world pose of a body in a context.
BodyPose(c, body) ==
    CASE body = "link1" -> JointTransform(c.q["j1"])
      [] body \in {"link2", "wsg", "finger"} -> GripperFK(c.q)
      [] body = "door" -> GetDoorPose(c)
      [] body = "table" -> TablePose
      [] body = "A_body" -> c.pose["A"]
      [] body = "B_body" -> c.pose["B"]

\* exists_colliding_pair(diagram, diagram_context, mbp, scene_graph, pairs):
\* two bodies collide where they take the same place.
ExistsCollidingPair(c, pairs) ==
    \E pair \in pairs : BodyPose(c, pair[1]) = BodyPose(c, pair[2])

\* ---------------------------- collision test: get_collision_test.test

\* The trajectories and candidate poses the test is asked about.
TestTrajs ==
    {TrajectoryInit(path, attachments) :
        path \in IterPaths, attachments \in IterAttachments}

TestPoses ==
    {PoseInit("world", o, t) : o \in Objects, t \in {Rot, Mul(Rot, Rot), Flip}}
        \cup {GraspOfB}

TestObstaclesKept(pose, moving) == PoseBodies(pose)

\* obstacles = set(pose.bodies) - moving
TestObstacles(pose, moving) == PoseBodies(pose) \ moving

RECURSIVE TestLoopQueryFirst(_, _, _, _)
TestLoopQueryFirst(c, traj, collision_pairs, k) ==
    IF k = 0
    THEN [c |-> c, log |-> <<>>, hit |-> FALSE]
    ELSE LET before == TestLoopQueryFirst(c, traj, collision_pairs, k - 1)
             ops == IterateStepOps(PathTail(traj.path)[k], traj.attachments)
             stepped == ApplyOps(before.c, ops, Len(ops))
             colliding == ExistsCollidingPair(before.c, collision_pairs)
         IN IF before.hit
            THEN before
            ELSE [c |-> stepped,
                  log |-> before.log \o ops
                            \o <<[op |-> "exists_colliding_pair", arg |-> colliding]>>,
                  hit |-> colliding]

RECURSIVE TestLoopNoStop(_, _, _, _)
TestLoopNoStop(c, traj, collision_pairs, k) ==
    IF k = 0
    THEN [c |-> c, log |-> <<>>, hit |-> FALSE]
    ELSE LET before == TestLoopNoStop(c, traj, collision_pairs, k - 1)
             ops == IterateStepOps(PathTail(traj.path)[k], traj.attachments)
             stepped == ApplyOps(before.c, ops, Len(ops))
             colliding == ExistsCollidingPair(stepped, collision_pairs)
         IN [c |-> stepped,
             log |-> before.log \o ops
                       \o <<[op |-> "exists_colliding_pair", arg |-> colliding]>>,
             hit |-> before.hit \/ colliding]

\* The loop over traj.iterate(context), after at most k of its steps: it
\* ends at the first step at which a colliding pair exists.
RECURSIVE TestLoop(_, _, _, _)
TestLoop(c, traj, collision_pairs, k) ==
    IF k = 0
    THEN [c |-> c, log |-> <<>>, hit |-> FALSE]
    ELSE LET before == TestLoop(c, traj, collision_pairs, k - 1)
             ops == IterateStepOps(PathTail(traj.path)[k], traj.attachments)
             stepped == ApplyOps(before.c, ops, Len(ops))
             colliding == ExistsCollidingPair(stepped, collision_pairs)
         IN IF before.hit
            THEN before
            ELSE [c |-> stepped,
                  log |-> before.log \o ops
                            \o <<[op |-> "exists_colliding_pair", arg |-> colliding]>>,
                  hit |-> colliding]

TestFnAssignFirst(c, collisions, traj, pose) ==
    LET moving == BodiesFromModels({"robot", "gripper"}) \cup TrajectoryBodies(traj)
        obstacles == TestObstacles(pose, moving)
        collision_pairs == moving \X obstacles
        assigned == PoseAssign(c, pose)
        run == TestLoop(assigned, traj, collision_pairs, Len(PathTail(traj.path)))
    IN IF ~collisions
       THEN [pc |-> "returned", collisions |-> collisions, traj |-> traj,
             pose |-> pose, before |-> c, c |-> c, computed |-> FALSE,
             moving |-> {}, obstacles |-> {}, collision_pairs |-> {},
             log |-> <<>>, result |-> FALSE]
       ELSE IF collision_pairs = {}
       THEN [pc |-> "returned", collisions |-> collisions, traj |-> traj,
             pose |-> pose, before |-> c, c |-> assigned, computed |-> TRUE,
             moving |-> moving, obstacles |-> obstacles,
             collision_pairs |-> collision_pairs,
             log |-> <<[op |-> "Pose.assign", arg |-> pose]>>, result |-> FALSE]
       ELSE [pc |-> "returned", collisions |-> collisions, traj |-> traj,
             pose |-> pose, before |-> c, c |-> run.c, computed |-> TRUE,
             moving |-> moving, obstacles |-> obstacles,
             collision_pairs |-> collision_pairs,
             log |-> <<[op |-> "Pose.assign", arg |-> pose]>> \o run.log,
             result |-> run.hit]

\* test, from its entry to its return.
TestFn(c, collisions, traj, pose) ==
    LET moving == BodiesFromModels({"robot", "gripper"}) \cup TrajectoryBodies(traj)
        obstacles == TestObstacles(pose, moving)
        collision_pairs == moving \X obstacles
        assigned == PoseAssign(c, pose)
        run == TestLoop(assigned, traj, collision_pairs, Len(PathTail(traj.path)))
    IN IF ~collisions
       THEN [pc |-> "returned", collisions |-> collisions, traj |-> traj,
             pose |-> pose, before |-> c, c |-> c, computed |-> FALSE,
             moving |-> {}, obstacles |-> {}, collision_pairs |-> {},
             log |-> <<>>, result |-> FALSE]
       ELSE IF collision_pairs = {}
       THEN [pc |-> "returned", collisions |-> collisions, traj |-> traj,
             pose |-> pose, before |-> c, c |-> c, computed |-> TRUE,
             moving |-> moving, obstacles |-> obstacles,
             collision_pairs |-> collision_pairs,
             log |-> <<>>, result |-> FALSE]
       ELSE [pc |-> "returned", collisions |-> collisions, traj |-> traj,
             pose |-> pose, before |-> c, c |-> run.c, computed |-> TRUE,
             moving |-> moving, obstacles |-> obstacles,
             collision_pairs |-> collision_pairs,
             log |-> <<[op |-> "Pose.assign", arg |-> pose]>> \o run.log,
             result |-> run.hit]

TestCall ==
    /\ NoCall
    /\ \E collisions \in BOOLEAN, traj \in TestTrajs, pose \in TestPoses :
          LET t == TestFn(ctx, collisions, traj, pose)
          IN /\ tst' = [x \in DOMAIN t \ {"c"} |-> t[x]]
             /\ ctx' = t.c
    /\ UNCHANGED <<heap, pick, pull, iter, mot, sgen>>
    /\ pa' = Idle

\* The caller takes the result.
TestReturn ==
    /\ tst.pc = "returned"
    /\ tst' = Idle
    /\ UNCHANGED <<ctx, heap, pick, pull, iter, mot, sgen, pa>>

NextTest ==
    \/ TestCall
    \/ TestReturn

SpecTest == Init /\ [][NextTest]_vars

\* ---------------------------- stable placements: get_stable_gen.gen

\* Most samples one generator draws from the placement sampler.
MaxSamples == 3

\* sample_aabb_placement(object_aabb, surface_aabb): what it may yield next.
Samples == {Identity, Rot, Flip}

\* The surfaces placements are asked on.
Surfaces == {"table", "B_body"}

\* box_from_geom[...]: the local offsets of the object's and the
\* surface's boxes.
ObjectLocal(obj) == IF obj = "A" THEN Rot ELSE Identity

SurfaceLocal(surface) == IF surface = "table" THEN Mul(Rot, Rot) ELSE Flip

\* task.fixed_bodies() if collisions else []
Fixed(collisions) == IF collisions THEN FixedBodies ELSE {}

\* world_pose = surface_pose.multiply(surface_local).multiply(
\*     surface_from_object).multiply(object_local.inverse())
StableWorldPose(surface_pose, surface_local, surface_from_object, object_local) ==
    Mul(Mul(Mul(surface_pose, surface_local), surface_from_object), Inv(object_local))

\* gen's code before its loop, run by the first next().
StableEnter(g, c) ==
    [g EXCEPT !.started = TRUE,
              !.surface_pose = BodyPose(c, g.surface),
              !.collision_pairs = GetModelBodies(g.obj) \X Fixed(g.collisions)]

StableYieldAlways(colliding) == TRUE

\* if not exists_colliding_pair(...): yield pose,
StableYield(colliding) == ~colliding

\* One pass of gen's loop: the next sample is posed, assigned and checked,
\* and yielded if nothing collides.
StablePass(g, c, surface_from_object) ==
    LET world_pose == StableWorldPose(g.surface_pose, SurfaceLocal(g.surface),
                                      surface_from_object, ObjectLocal(g.obj))
        pose == PoseInit("world", g.obj, world_pose)
        assigned == PoseAssign(c, pose)
        colliding == ExistsCollidingPair(assigned, g.collision_pairs)
    IN [c |-> assigned,
        g |-> [g EXCEPT !.drawn = Append(@, surface_from_object),
                        !.checked = Append(@, [pose |-> pose, colliding |-> colliding]),
                        !.yielded = IF StableYield(colliding) THEN Append(@, pose) ELSE @,
                        !.pc = IF StableYield(colliding) THEN "suspended" ELSE "running"]]

\* gen(obj_name, surface): a generator that has run no code yet.
StableGen ==
    /\ NoCall
    /\ sgen.pc = "idle"
    /\ \E collisions \in BOOLEAN, obj \in Objects, surface \in Surfaces :
          /\ surface \notin GetModelBodies(obj)
          /\ sgen' = [pc |-> "suspended", collisions |-> collisions, obj |-> obj,
                      surface |-> surface, started |-> FALSE,
                      surface_pose |-> Identity, collision_pairs |-> {},
                      drawn |-> <<>>, checked |-> <<>>, yielded |-> <<>>]
    /\ UNCHANGED <<ctx, heap, pick, pull, iter, mot, tst, pa>>

\* next(generator): the caller pulls.
StablePull ==
    /\ NoCall
    /\ sgen.pc = "suspended"
    /\ Len(sgen.drawn) < MaxSamples
    /\ sgen' = [(IF sgen.started THEN sgen ELSE StableEnter(sgen, ctx))
                    EXCEPT !.pc = "running"]
    /\ UNCHANGED <<ctx, heap, pick, pull, iter, mot, tst, pa>>

\* The pull's loop draws the sampler's next placement.
StableSample ==
    /\ sgen.pc = "running"
    /\ Len(sgen.drawn) < MaxSamples
    /\ \E surface_from_object \in Samples :
          LET r == StablePass(sgen, ctx, surface_from_object)
          IN /\ sgen' = r.g
             /\ ctx' = r.c
    /\ UNCHANGED <<heap, pick, pull, iter, mot, tst>>
    /\ pa' = Idle

\* The caller stops pulling and lets go of the generator.
StableDrop ==
    /\ sgen.pc = "suspended"
    /\ sgen' = Idle
    /\ UNCHANGED <<ctx, heap, pick, pull, iter, mot, tst, pa>>

NextStable ==
    \/ StableGen
    \/ StablePull
    \/ StableSample
    \/ StableDrop

SpecStable == Init /\ [][NextStable]_vars

\* ------------------------------------ construction of Confs, directly

\* Most Conf objects alive at once.
MaxHeap == 2
\* Longest position sequence a Conf is built from.
MaxPositions == 3

\* The joint lists Confs are built over: the mover's, the door's, both.
JointLists == {RobotJoints, DoorJoints, RobotJoints \o DoorJoints}

PositionSeqs == UNION {[1 .. n -> {0, 1}] : n \in 0 .. MaxPositions}

\* The joint paths Trajectories are built from, as the synthesizers do.
HeapPaths ==
    UNION {[1 .. n -> {<<0>>, <<0, 1>>, <<1, 0>>, <<0, 1, 0>>}] : n \in 1 .. 2}

\* The Conf objects a construction leaves alive.
Built(obj) ==
    IF obj.tag = "Conf" THEN {obj}
    ELSE IF obj.tag = "Trajectory" THEN {obj.path[i] : i \in DOMAIN obj.path}
    ELSE {}

\* Conf(joints, positions)
ConfNew ==
    /\ NoCall
    /\ \E joints \in JointLists, positions \in PositionSeqs :
          LET conf == ConfInit(joints, positions)
          IN /\ Cardinality(heap.objs \cup Built(conf)) <= MaxHeap
             /\ heap' = [objs |-> heap.objs \cup Built(conf),
                         last |-> conf,
                         mismatch |-> Len(joints) # Len(positions)]
    /\ UNCHANGED <<ctx, pick, pull, iter, mot, tst, sgen, pa>>

\* Trajectory(Conf(joints, q) for q in path)
TrajNew ==
    /\ NoCall
    /\ \E joints \in JointLists, path \in HeapPaths :
          LET traj == TrajectoryFromPath(joints, path)
          IN /\ Cardinality(heap.objs \cup Built(traj)) <= MaxHeap
             /\ heap' = [objs |-> heap.objs \cup Built(traj),
                         last |-> traj,
                         mismatch |-> \E i \in DOMAIN path : Len(joints) # Len(path[i])]
    /\ UNCHANGED <<ctx, pick, pull, iter, mot, tst, sgen, pa>>

\* An object is let go of.
HeapDrop ==
    /\ \E obj \in heap.objs :
          heap' = [heap EXCEPT !.objs = @ \ {obj}]
    /\ UNCHANGED <<ctx, pick, pull, iter, mot, tst, sgen, pa>>

NextHeap ==
    \/ ConfNew
    \/ TrajNew
    \/ HeapDrop

SpecHeap == Init /\ [][NextHeap]_vars

\* ------------------------------------------- Pose.assign, called directly

\* Most times in a row the same Pose is assigned.
MaxRepeats == 2

\* The frame at the base body of a model.
FrameOf(model) == model

\* The Poses assigned: Pose.__init__ takes any parent frame, any child and
\* any transform, the frame of the child itself included.
AssignPoses ==
    {PoseInit(parent, child, t) : parent \in Frames, child \in Objects, t \in Transform}

\* pose.assign(context), by a caller that counts its calls in a row.
PoseAssignCall ==
    /\ NoCall
    /\ \E pose \in AssignPoses :
          /\ ctx' = PoseAssign(ctx, pose)
          /\ IF pa.pc = "assigned" /\ pa.pose = pose
             THEN /\ pa.n < MaxRepeats
                  /\ pa' = [pa EXCEPT !.n = pa.n + 1]
             ELSE pa' = [pc |-> "assigned", pose |-> pose, n |-> 1,
                         once |-> PoseAssign(ctx, pose).pose[pose.child]]
    /\ UNCHANGED <<heap, pick, pull, iter, mot, tst, sgen>>

\* conf.assign(context): the mover's joints change between two runs.
ConfAssignCall ==
    /\ NoCall
    /\ \E conf \in IterConfs :
          ctx' = ConfAssign(ctx, conf)
    /\ pa' = Idle
    /\ UNCHANGED <<heap, pick, pull, iter, mot, tst, sgen>>

NextPose ==
    \/ PoseAssignCall
    \/ ConfAssignCall

SpecPose == Init /\ [][NextPose]_vars

\* ------------------------------- pulls between moves of the mover

\* Pull calls, with the mover set to other configurations between them.
NextPullFrame ==
    \/ PullCall
    \/ PullAttempt
    \/ PullExhaust
    \/ PullReturn
    \/ ConfAssignCall

SpecPullFrame == Init /\ [][NextPullFrame]_vars

\* ------------------------------------------------- the whole program

\* Every operation, on the one shared context.
Next ==
    \/ NextRetry
    \/ NextIter
    \/ NextMotion
    \/ NextTest
    \/ NextStable
    \/ NextHeap
    \/ NextPose

Spec == Init /\ [][Next]_vars

\* ------------------------------------------------------------ properties

AllFailed(outcomes) == \A i \in DOMAIN outcomes : outcomes[i] # "success"

\* C1: a pick call in which every attempt fails (the workspace IK routine or
\* the waypoint-to-path routine hands back nothing, every time) makes exactly
\* max_failures attempts, no more while it runs, and then returns None.
C1_AllFailExactlyMaxFailures ==
    /\ (pick.pc = "loop" /\ AllFailed(pick.outcomes))
          => pick.attempts <= pick.max_failures
    /\ (pick.pc = "returned" /\ AllFailed(pick.outcomes))
          => /\ pick.result = NoneVal
             /\ pick.attempts = pick.max_failures
             /\ Len(pick.outcomes) = pick.max_failures

\* A pick call that failed at both stages and returned None after its
\* max_failures >= 2 attempts.
C1_Witness ==
    /\ pick.pc = "returned"
    /\ pick.result = NoneVal
    /\ pick.max_failures >= 2
    /\ pick.attempts = pick.max_failures
    /\ \E i \in DOMAIN pick.outcomes : pick.outcomes[i] = "no_waypoints"
    /\ \E i \in DOMAIN pick.outcomes : pick.outcomes[i] = "no_path"

\* C2 as stated: a success resets the failure counter and the retry loop
\* goes on, so that further attempts of the same call can follow it.
C2_SuccessKeepsLooping ==
    [][(pick.pc = "loop" /\ pick'.pc # "idle"
            /\ pick'.last_success # pick.last_success)
          => pick'.pc = "loop"]_vars

\* C2, amended: the counter is set on a success and the call returns with
\* it at once, so while the loop runs last_success is 0, the loop ends only
\* at attempts - last_success >= max_failures or at the first success, and a
\* call makes at most max_failures attempts in all.
C2_FirstSuccessReturns ==
    /\ pick.pc = "loop" => pick.last_success = 0
    /\ pick.pc # "idle" => pick.attempts <= pick.max_failures
    /\ (pick.pc = "returned" /\ pick.result # NoneVal)
          => /\ pick.last_success = pick.attempts
             /\ pick.outcomes[Len(pick.outcomes)] = "success"
             /\ AllFailed(SubSeq(pick.outcomes, 1, Len(pick.outcomes) - 1))
    /\ (pick.pc = "returned" /\ pick.result = NoneVal)
          => pick.attempts - pick.last_success >= pick.max_failures

\* A pick call that returned at its first success, after failures, with
\* attempts to spare.
C2_Witness ==
    /\ pick.pc = "returned"
    /\ pick.result # NoneVal
    /\ pick.attempts >= 2
    /\ pick.attempts < pick.max_failures
    /\ pick.last_success = pick.attempts

\* C3: whatever the attempts' outcomes, a pick call that has started
\* returns, after at most max_failures attempts, and a pull call that has
\* started returns, after at most max_attempts attempts.
C3_RetriesTerminate ==
    /\ [](pick.pc # "idle" => pick.attempts <= pick.max_failures)
    /\ [](pull.pc # "idle" => pull.attempts <= pull.max_attempts)
    /\ (pick.pc = "loop") ~> (pick.pc = "returned")
    /\ (pull.pc = "loop") ~> (pull.pc = "returned")

\* A pull call that returned None after failing max_attempts >= 2 times,
\* at both stages.
C3_Witness ==
    /\ pull.pc = "returned"
    /\ pull.result = NoneVal
    /\ pull.max_attempts >= 2
    /\ pull.attempts = pull.max_attempts
    /\ \E i \in DOMAIN pull.outcomes : pull.outcomes[i] = "no_waypoints"
    /\ \E i \in DOMAIN pull.outcomes : pull.outcomes[i] = "no_path"

\* C4: a generator made by iterate over a path of length N yields exactly
\* N-1 steps; its k-th step assigns path[k] (k = 1..N-1, the path counted
\* from 0) and then every attachment in list order, and nothing else; and a
\* new generator starts from path[1] however far another one has run.
C4_IterateSteps ==
    iter.pc = "held" =>
        \A g \in GenIds :
            LET gen == iter.gens[g]
                path == iter.traj.path
                att == iter.traj.attachments
                N == Len(iter.traj.path)
            IN gen.state # "none" =>
                /\ gen.yields <= N - 1
                /\ gen.state = "done" => gen.yields = N - 1
                /\ gen.rest = SubSeq(path, gen.yields + 2, N)
                /\ gen.yields = 0 => gen.log = <<>>
                /\ gen.yields >= 1 =>
                      /\ Len(gen.log) = 1 + Len(att)
                      /\ gen.log[1] = [op |-> "Conf.assign", arg |-> path[gen.yields + 1]]
                      /\ \A i \in 1 .. Len(att) :
                            gen.log[i + 1] = [op |-> "Pose.assign", arg |-> att[i]]

\* A generator made after another one on the same Trajectory had taken two
\* steps has taken its own first step, with path[1] and both attachments in
\* order, and the other one is exhausted after N-1 = 2 yields.
C4_Witness ==
    /\ iter.pc = "held"
    /\ Len(iter.traj.path) = 3
    /\ iter.traj.path[2] # iter.traj.path[3]
    /\ iter.traj.attachments = <<BOnA, GraspOfA>>
    /\ iter.gens[1].state = "done"
    /\ iter.gens[1].yields = 2
    /\ iter.gens[2].state = "suspended"
    /\ iter.gens[2].seen = 2
    /\ iter.gens[2].yields = 1
    /\ iter.gens[2].log[1].arg = iter.traj.path[2]

FluentPredicates == {"atconf", "atpose", "atgrasp"}

Recognized(fluents) == \A i \in DOMAIN fluents : fluents[i][1] \in FluentPredicates

\* The bodies a fact of the predicate brings: those of its last element.
FactBodies(fact) ==
    IF fact[1] = "atconf" THEN ConfBodies(fact[3])
    ELSE IF fact[1] = "atpose" THEN PoseBodies(fact[3])
    ELSE PoseBodies(fact[4])

\* C5: after a list of recognized fluents the motion planner's moving and
\* obstacle sets, from which the collision pairs are built, are disjoint;
\* the bodies of every 'atgrasp' grasp are moving; the bodies of every
\* 'atpose' pose and 'atconf' configuration are obstacles unless moving. For
\* the fluents atpose A, atgrasp B, in either order, A's bodies are
\* obstacles and not moving, and B's are moving and not obstacles.
C5_MovingObstaclesDisjoint ==
    (mot.pc = "returned" /\ Recognized(mot.fluents)) =>
        /\ mot.moving \cap mot.obstacles = {}
        /\ mot.collision_pairs \subseteq mot.moving \X mot.obstacles
        /\ mot.collisions => mot.collision_pairs = mot.moving \X mot.obstacles
        /\ \A i \in DOMAIN mot.fluents :
              IF mot.fluents[i][1] = "atgrasp"
              THEN FactBodies(mot.fluents[i]) \subseteq mot.moving
              ELSE FactBodies(mot.fluents[i]) \subseteq mot.obstacles \cup mot.moving
        /\ ({mot.fluents[i] : i \in DOMAIN mot.fluents}
                = {<<"atpose", "A", PoseInit("world", "A", Rot)>>,
                   <<"atgrasp", "robot", "B", GraspOfB>>})
              => /\ GetModelBodies("A") \subseteq mot.obstacles
                 /\ GetModelBodies("A") \cap mot.moving = {}
                 /\ GetModelBodies("B") \subseteq mot.moving
                 /\ GetModelBodies("B") \cap mot.obstacles = {}

\* The call with the fluents atgrasp B, atpose A has returned.
C5_Witness ==
    /\ mot.pc = "returned"
    /\ mot.fluents = <<<<"atgrasp", "robot", "B", GraspOfB>>,
                       <<"atpose", "A", PoseInit("world", "A", Rot)>>>>
    /\ mot.collisions
    /\ "A_body" \in mot.obstacles
    /\ "B_body" \in mot.moving

\* C9: a fluent list holding, anywhere, a fact whose predicate is not
\* 'atconf', 'atpose' or 'atgrasp' ends the call with an error: the joint
\* planner is not called, and neither a trajectory nor None is returned.
C9_UnknownPredicateIsFatal ==
    (mot.pc = "returned" /\ ~Recognized(mot.fluents)) =>
        /\ mot.result.tag = "ValueError"
        /\ \A i \in DOMAIN mot.log : mot.log[i].op # "plan_joint_motion"

\* A call whose second fluent is of an unknown predicate, after a
\* recognized one, has raised.
C9_Witness ==
    /\ mot.pc = "returned"
    /\ Len(mot.fluents) = 2
    /\ mot.fluents[1][1] = "atpose"
    /\ mot.fluents[2][1] = "holding"
    /\ mot.result = ValueError("holding")

\* C6 as stated: the collision test returns false whenever the moving set
\* and the obstacle set it computes are disjoint.
C6_DisjointSetsGiveFalse ==
    (tst.pc = "returned" /\ tst.computed /\ tst.moving \cap tst.obstacles = {})
        => tst.result = FALSE

\* C6, amended: the test returns false whenever its candidate pair set is
\* empty, that is whenever every body of the candidate pose is a moving
\* body, whatever the trajectory holds and whatever the collaborator would
\* report for the moving bodies and the bodies of the pose.
C6_NoCandidatePairsGiveFalse ==
    (tst.pc = "returned" /\ tst.collisions
            /\ PoseBodies(tst.pose) \subseteq
                  BodiesFromModels({"robot", "gripper"}) \cup TrajectoryBodies(tst.traj))
        => /\ tst.result = FALSE
           /\ tst.collision_pairs = {}

\* The test returned false for a pose of an attached object, along a
\* trajectory of three configurations, in a context in which the
\* collaborator reports a collision between the mover and the object.
C6_Witness ==
    /\ tst.pc = "returned"
    /\ tst.collisions
    /\ tst.pose.child = "A"
    /\ tst.traj.attachments = <<GraspOfA>>
    /\ Len(tst.traj.path) = 3
    /\ tst.collision_pairs = {}
    /\ tst.result = FALSE
    /\ ExistsCollidingPair(ctx, BodiesFromModels({"robot", "gripper"}) \X PoseBodies(tst.pose))

\* The pose the generator builds from a sample.
SamplePose(g, surface_from_object) ==
    PoseInit("world", g.obj,
             Mul(Mul(Mul(g.surface_pose, SurfaceLocal(g.surface)), surface_from_object),
                 Inv(ObjectLocal(g.obj))))

\* With the pose assigned, a body of the object collides with a fixed body.
SampleCollides(g, surface_from_object) ==
    ExistsCollidingPair(PoseAssign(ctx, SamplePose(g, surface_from_object)),
                        GetModelBodies(g.obj) \X Fixed(g.collisions))

\* The poses of the samples, in order, that collide with nothing.
RECURSIVE FreePoses(_, _)
FreePoses(g, drawn) ==
    IF drawn = <<>>
    THEN <<>>
    ELSE IF SampleCollides(g, Head(drawn))
    THEN FreePoses(g, Tail(drawn))
    ELSE <<SamplePose(g, Head(drawn))>> \o FreePoses(g, Tail(drawn))

\* C7: the stable-placement generator has yielded exactly the poses, in
\* sampler order, of the samples drawn so far whose pose collides with no
\* fixed body; and over all its pulls each sample drawn was assigned and
\* checked once, in the order drawn.
C7_StableYieldsFreeSamples ==
    (sgen.pc # "idle" /\ sgen.started) =>
        /\ sgen.yielded = FreePoses(sgen, sgen.drawn)
        /\ Len(sgen.checked) = Len(sgen.drawn)
        /\ \A i \in DOMAIN sgen.drawn :
              /\ sgen.checked[i].pose = SamplePose(sgen, sgen.drawn[i])
              /\ sgen.checked[i].colliding = SampleCollides(sgen, sgen.drawn[i])
        /\ (sgen.pc = "suspended" /\ sgen.drawn # <<>>) =>
              ~sgen.checked[Len(sgen.checked)].colliding

\* After two pulls the generator has drawn three samples, skipped a
\* colliding one between two it yielded.
C7_Witness ==
    /\ sgen.pc = "suspended"
    /\ sgen.collisions
    /\ Len(sgen.drawn) = 3
    /\ ~sgen.checked[1].colliding
    /\ sgen.checked[2].colliding
    /\ ~sgen.checked[3].colliding
    /\ Len(sgen.yielded) = 2
    /\ sgen.yielded[2] = sgen.checked[3].pose

WellFormed(conf) == conf.tag = "Conf" /\ Len(conf.joints) = Len(conf.positions)

\* C8: building a Conf from a joint list and a position sequence of
\* different lengths fails, so every Conf that exists, on its own or in the
\* path of a Trajectory built as the synthesizers build theirs, has as many
\* joints as positions.
C8_ConfLengthsMatch ==
    /\ \A obj \in heap.objs : WellFormed(obj)
    /\ heap.mismatch => heap.last = AssertionError
    /\ heap.last.tag = "Conf" => WellFormed(heap.last)
    /\ heap.last.tag = "Trajectory" =>
          \A i \in DOMAIN heap.last.path : WellFormed(heap.last.path[i])

\* A Conf is alive, and the last construction, of a Trajectory from a path
\* with a configuration of the wrong length, has failed.
C8_Witness ==
    /\ heap.mismatch
    /\ heap.last = AssertionError
    /\ \E obj \in heap.objs : Len(obj.joints) = 3

\* The Confs of the trajectories the synthesizers have returned have as
\* many joints as positions.
ResultConfsWellFormed ==
    /\ (pick.pc = "returned" /\ pick.result # NoneVal) =>
          /\ WellFormed(pick.result.conf)
          /\ \A i \in DOMAIN pick.result.traj.path : WellFormed(pick.result.traj.path[i])
    /\ (pull.pc = "returned" /\ pull.result.tag = "PullResult") =>
          /\ WellFormed(pull.result.rq1)
          /\ WellFormed(pull.result.rq2)
          /\ \A i \in DOMAIN pull.result.traj.path : WellFormed(pull.result.traj.path[i])
    /\ (mot.pc = "returned" /\ mot.result.tag = "MotionResult") =>
          \A i \in DOMAIN mot.result.traj.path : WellFormed(mot.result.traj.path[i])

\* C10 as stated: Pose.assign run again, with the same parent, child and
\* transform and nothing else changing the context in between, leaves the
\* child at the world pose the first run put it at, for every Pose.
C10_AnyPoseAssignIdempotent ==
    (pa.pc = "assigned" /\ pa.n >= 2) => ctx.pose[pa.pose.child] = pa.once

\* C10, amended: for a Pose whose parent frame is not a frame of its own
\* child, Pose.assign run again, with nothing else changing the context in
\* between, leaves the child at the world pose the first run put it at.
C10_PoseAssignIdempotent ==
    (pa.pc = "assigned" /\ pa.n >= 2 /\ pa.pose.parent # FrameOf(pa.pose.child))
        => ctx.pose[pa.pose.child] = pa.once

\* A grasp (child hung from the gripper, moved off the zero position) has
\* been assigned twice in a row.
C10_Witness ==
    /\ pa.pc = "assigned"
    /\ pa.n = 2
    /\ pa.pose.parent = "gripper"
    /\ pa.pose.transform = Flip
    /\ ctx.q["j1"] = 2
    /\ ctx.pose[pa.pose.child] = Mul(GripperFK(ctx.q), Flip)

\* The Trajectory over a joint path: one Conf of the mover per configuration.
PathConfs(joints, path) ==
    [i \in DOMAIN path |-> [tag |-> "Conf", joints |-> joints, positions |-> path[i]]]

\* What a pick attempt in which both stages succeed returns: for waypoints
\* solving the approach path and a joint path through them, the Trajectory
\* of the whole joint path and its last configuration.
PickSuccessResults(gripper_path) ==
    {[tag |-> "PickResult",
      conf |-> PathConfs(RobotJoints, path.val)[Len(path.val)],
      traj |-> [tag |-> "Trajectory", path |-> PathConfs(RobotJoints, path.val),
                attachments |-> <<>>]] :
        path \in UNION {PlanWaypointsJointMotion(w.val) \ {NoneVal} :
                           w \in PlanWorkspaceMotion(gripper_path) \ {NoneVal}}}

\* A pick for a grasp no configuration of the mover reaches returned None.
UnreachableReturnsNone ==
    (pick.pc = "returned"
        /\ \E i \in DOMAIN pick.gripper_path : IKSolutions(pick.gripper_path[i]) = {})
      => pick.result = NoneVal

\* C11: a pick call returns None or a pair (q, traj), never an error and
\* never a result while its loop runs; a failed attempt leaves the loop
\* running or ends the call with None; and the pair it returns is that of
\* the first attempt in which both stages succeeded: traj is the whole
\* joint path of that attempt, from the first gripper pose's solution to
\* the last one's, and q is the last configuration of traj.path.
C11_PickAtomic ==
    /\ []UnreachableReturnsNone
    /\ [](pick.pc = "loop" => pick.result = NoneVal)
    /\ [](pick.pc = "returned" =>
            \/ pick.result = NoneVal /\ AllFailed(pick.outcomes)
            \/ /\ pick.result \in PickSuccessResults(pick.gripper_path)
               /\ pick.result.conf = pick.result.traj.path[Len(pick.result.traj.path)]
               /\ pick.result.traj.path[1].positions
                      \in IKSolutions(pick.gripper_path[1])
               /\ pick.result.conf.positions
                      \in IKSolutions(pick.gripper_path[Len(pick.gripper_path)])
               /\ pick.outcomes[Len(pick.outcomes)] = "success"
               /\ AllFailed(SubSeq(pick.outcomes, 1, Len(pick.outcomes) - 1)))
    /\ [][(pick.pc = "loop" /\ pick'.pc # "idle"
              /\ pick'.outcomes # pick.outcomes
              /\ pick'.outcomes[Len(pick'.outcomes)] # "success")
            => (pick'.pc = "loop" /\ pick'.result = NoneVal)]_vars

\* A pick call returned, at its third attempt, after one failure at each
\* stage, a trajectory longer than the approach path, with its last
\* configuration.
C11_Witness ==
    /\ pick.pc = "returned"
    /\ pick.outcomes = <<"no_waypoints", "no_path", "success">>
    /\ pick.result # NoneVal
    /\ Len(pick.result.traj.path) = 3
    /\ Len(pick.gripper_path) = 2
    /\ pick.result.traj.path[1] # pick.result.traj.path[3]
    /\ pick.result.conf = pick.result.traj.path[3]

\* The child of the attachment stands, in the context, where its parent
\* frame now is, composed with the attachment's transform.
Fresh(c, attach) ==
    c.pose[attach.child] = Mul(GetRelativeTransform(c, attach.parent), attach.transform)

\* C12: after every step yielded by a generator of iterate, every
\* attachment of the trajectory is fresh: its child's world pose is its
\* parent frame's current world pose composed with its transform, also when
\* the parent frame of one attachment is the child of another.
C12_AttachmentsNeverStale ==
    (iter.pc = "held" /\ \E g \in GenIds : iter.gens[g].state # "none"
                                              /\ iter.gens[g].yields >= 1)
        => \A i \in DOMAIN iter.traj.attachments : Fresh(ctx, iter.traj.attachments[i])

\* C12, in dependency order: where no attachment hangs from the child of
\* one later in the list, every attachment is fresh after every step.
InDependencyOrder(attachments) ==
    \A i, j \in DOMAIN attachments :
        (i <= j) => attachments[i].parent # FrameOf(attachments[j].child)

C12_OrderedAttachmentsFresh ==
    (iter.pc = "held" /\ InDependencyOrder(iter.traj.attachments)
        /\ \E g \in GenIds : iter.gens[g].state # "none" /\ iter.gens[g].yields >= 1)
        => \A i \in DOMAIN iter.traj.attachments : Fresh(ctx, iter.traj.attachments[i])

\* The assignments among the first n entries of a log, in order.
Assignments(log, n) ==
    SelectSeq(SubSeq(log, 1, n), LAMBDA e : e.op # "exists_colliding_pair")

\* The positions in a log of the queries to the collision collaborator.
Queries(log) == {i \in DOMAIN log : log[i].op = "exists_colliding_pair"}

\* C13: a collision test with checking enabled and candidate pairs assigns
\* the candidate pose once, first; then, step by step, assigns path[k] and
\* the attachments and queries the collaborator once, in the context those
\* assignments leave; it stops at the first query answered true and returns
\* true, and returns false after N-1 queries answered false; the context is
\* left as of the last step taken.
C13_TestStepsAndStops ==
    (tst.pc = "returned" /\ tst.collisions /\ tst.collision_pairs # {}) =>
        LET log == tst.log
            att == tst.traj.attachments
            N == Len(tst.traj.path)
            block == Len(att) + 2
            m == Cardinality(Queries(log))
        IN /\ log[1] = [op |-> "Pose.assign", arg |-> tst.pose]
           /\ Cardinality({i \in DOMAIN log : log[i] = log[1]}) = 1
           /\ m <= N - 1
           /\ Len(log) = 1 + m * block
           /\ \A k \in 1 .. m :
                 LET at == 1 + (k - 1) * block
                 IN /\ log[at + 1] = [op |-> "Conf.assign", arg |-> tst.traj.path[k + 1]]
                    /\ \A i \in 1 .. Len(att) :
                          log[at + 1 + i] = [op |-> "Pose.assign", arg |-> att[i]]
                    /\ log[at + block].op = "exists_colliding_pair"
                    /\ log[at + block].arg =
                          ExistsCollidingPair(
                              ApplyOps(tst.before, Assignments(log, at + block),
                                       Len(Assignments(log, at + block))),
                              tst.collision_pairs)
                    /\ k < m => log[at + block].arg = FALSE
           /\ tst.result = (\E i \in Queries(log) : log[i].arg)
           /\ tst.result => log[Len(log)].arg
           /\ ~tst.result => m = N - 1
           /\ ctx = ApplyOps(tst.before, Assignments(log, Len(log)),
                             Len(Assignments(log, Len(log))))

\* The test returned true at the first of two steps of a trajectory that
\* carries an attachment: one query was made and answered true, and the
\* last configuration, which differs, was never assigned.
C13_Witness ==
    /\ tst.pc = "returned"
    /\ tst.collisions
    /\ tst.collision_pairs # {}
    /\ Len(tst.traj.path) = 3
    /\ tst.traj.path[3] # tst.traj.path[2]
    /\ tst.traj.attachments # <<>>
    /\ tst.result
    /\ Cardinality(Queries(tst.log)) = 1
    /\ ctx.q["j1"] = tst.traj.path[2].positions[1]

\* C14: every pass of the pull synthesizer's loop, failed at either stage
\* or not, uses up one of the max_attempts attempts; the call returns
\* (rq1, rq2, traj) at the first attempt in which both stages succeed, and
\* None after exactly max_attempts attempts when none does.
C14_PullFlatBudget ==
    /\ [](pull.pc = "loop" =>
            /\ pull.attempts = Len(pull.outcomes)
            /\ pull.attempts <= pull.max_attempts
            /\ AllFailed(pull.outcomes)
            /\ pull.result = NoneVal)
    /\ []((pull.pc = "returned" /\ pull.result = NoneVal) =>
            /\ pull.attempts = pull.max_attempts
            /\ Len(pull.outcomes) = pull.max_attempts
            /\ AllFailed(pull.outcomes))
    /\ []((pull.pc = "returned" /\ pull.result.tag = "PullResult") =>
            /\ pull.attempts = Len(pull.outcomes)
            /\ pull.attempts <= pull.max_attempts
            /\ pull.outcomes[pull.attempts] = "success"
            /\ AllFailed(SubSeq(pull.outcomes, 1, pull.attempts - 1)))
    /\ [][(pull.pc = "loop" /\ pull'.pc # "idle" /\ pull'.outcomes # pull.outcomes)
            => /\ pull'.attempts = pull.attempts + 1
               /\ pull'.max_attempts = pull.max_attempts
               /\ (pull'.pc = "returned")
                     = (pull'.outcomes[Len(pull'.outcomes)] = "success")]_vars

\* A pull call returned its result at the last attempt of its budget,
\* after one failure at each stage.
C14_Witness ==
    /\ pull.pc = "returned"
    /\ pull.result.tag = "PullResult"
    /\ pull.outcomes = <<"no_path", "no_waypoints", "success">>
    /\ pull.attempts = pull.max_attempts

\* The configuration pairs a robot waypoint solving the i-th gripper pose
\* with the i-th door configuration.
PairsIndex(positions, i) ==
    /\ SubSeq(positions, 1, Len(RobotJoints)) \in IKSolutions(pull.pull_cartesian_path[i])
    /\ SubSeq(positions, Len(RobotJoints) + 1, Len(positions)) = pull.door_joint_path[i]

\* C15: in a result of the pull synthesizer the gripper poses are derived
\* index by index from the door configurations; rq1 solves the gripper pose
\* of the door's first configuration and rq2 that of its last; and every
\* configuration of the trajectory joins a robot waypoint solving the i-th
\* gripper pose with the i-th door configuration, for an i that runs from
\* the first index to the last along the path without going back.
C15_PullWaypointsAligned ==
    (pull.pc = "returned" /\ pull.result.tag = "PullResult") =>
        LET n == Len(pull.door_joint_path)
            path == pull.result.traj.path
        IN /\ Len(pull.pull_cartesian_path) = n
           /\ \E grasp \in Transform : \A i \in 1 .. n :
                 pull.pull_cartesian_path[i]
                    = Mul(Mul(DoorHinge, JointTransform(pull.door_joint_path[i][1])),
                          Inv(grasp))
           /\ pull.result.rq1.joints = RobotJoints
           /\ pull.result.rq2.joints = RobotJoints
           /\ pull.result.rq1.positions \in IKSolutions(pull.pull_cartesian_path[1])
           /\ pull.result.rq2.positions \in IKSolutions(pull.pull_cartesian_path[n])
           /\ path[1].positions = pull.result.rq1.positions \o pull.door_joint_path[1]
           /\ path[Len(path)].positions
                 = pull.result.rq2.positions \o pull.door_joint_path[n]
           /\ \E f \in IndexMaps(n, Len(path)) :
                 \A k \in DOMAIN path :
                    /\ path[k].joints = RobotJoints \o pull.door_joints
                    /\ PairsIndex(path[k].positions, f[k])

\* A pull over three door configurations returned a result whose first and
\* last gripper poses, and so rq1 and rq2, differ.
C15_Witness ==
    /\ pull.pc = "returned"
    /\ pull.result.tag = "PullResult"
    /\ Len(pull.door_joint_path) = 3
    /\ pull.door_joint_path[1] # pull.door_joint_path[3]
    /\ pull.pull_cartesian_path[1] # pull.pull_cartesian_path[3]
    /\ pull.result.rq1 # pull.result.rq2
    /\ Len(pull.result.traj.path) = 3

\* The assignments a fluent list asks for: one for each 'atconf' and
\* 'atpose' fact, in list order.
FluentAssignments(fluents) ==
    LET facts == SelectSeq(fluents, LAMBDA f : f[1] \in {"atconf", "atpose"})
    IN [i \in DOMAIN facts |->
          [op |-> IF facts[i][1] = "atconf" THEN "Conf.assign" ELSE "Pose.assign",
           arg |-> facts[i][3]]]

\* C16: a motion call with recognized fluents assigns every 'atconf' and
\* 'atpose' fact in list order, then opens the gripper, then sets the
\* mover's joints to the start configuration, then calls the joint planner,
\* once, from the start to the end configuration; it returns the Trajectory
\* of a path of the planner, or None when the planner has none; the context
\* is left with the gripper open and the mover at the start configuration.
C16_PlannerCalledLastOnce ==
    (mot.pc = "returned" /\ Recognized(mot.fluents)) =>
        LET asg == FluentAssignments(mot.fluents)
            n == Len(asg)
            plan == mot.log[n + 3]
        IN /\ Len(mot.log) = n + 3
           /\ SubSeq(mot.log, 1, n) = asg
           /\ mot.log[n + 1] = [op |-> "open_wsg50_gripper", arg |-> GripperOpen]
           /\ mot.log[n + 2].op = "set_joint_positions"
           /\ plan.op = "plan_joint_motion"
           /\ plan.arg[1] = mot.log[n + 2].arg
           /\ Cardinality({i \in DOMAIN mot.log : mot.log[i].op = "plan_joint_motion"}) = 1
           /\ ctx.q["g1"] = GripperOpen
           /\ \A i \in DOMAIN RobotJoints : ctx.q[RobotJoints[i]] = plan.arg[1][i]
           /\ \/ mot.result = NoneVal
              \/ /\ mot.result.tag = "MotionResult"
                 /\ mot.result.traj.attachments = <<>>
                 /\ \E path \in PlanJointMotion(plan.arg[1], plan.arg[2]) \ {NoneVal} :
                       mot.result.traj.path = PathConfs(RobotJoints, path.val)

\* A call with an 'atconf' fact of the mover and an 'atpose' fact returned
\* a trajectory of three configurations from a start configuration that
\* is not the fact's: the mover stands at the start configuration.
C16_Witness ==
    /\ mot.pc = "returned"
    /\ Len(mot.fluents) = 2
    /\ mot.fluents[1] = <<"atconf", "robot", ConfInit(RobotJoints, <<1, 0>>)>>
    /\ mot.fluents[2][1] = "atpose"
    /\ mot.result.tag = "MotionResult"
    /\ Len(mot.result.traj.path) = 3
    /\ mot.log[4].arg = <<2, 0>>
    /\ ctx.q["j1"] = 2

\* The candidate pairs of a test: the moving bodies, with the bodies of the
\* candidate pose that are not moving.
CandidatePairs(traj, pose) ==
    LET moving == BodiesFromModels({"robot", "gripper"}) \cup TrajectoryBodies(traj)
    IN moving \X (PoseBodies(pose) \ moving)

\* C17: a test with collision checking disabled, or with no candidate
\* pair, returns false having assigned nothing, stepped nothing and asked
\* the collaborator nothing: the context is as it was at the call.
C17_ShortCircuitLeavesContext ==
    (tst.pc = "returned"
        /\ (~tst.collisions \/ CandidatePairs(tst.traj, tst.pose) = {})) =>
        /\ tst.result = FALSE
        /\ tst.log = <<>>
        /\ ctx = tst.before

\* A test of a pose of the attached object, with checking enabled,
\* returned while the object stands elsewhere than at the candidate pose
\* and the mover elsewhere than at the trajectory's last configuration.
C17_Witness ==
    /\ tst.pc = "returned"
    /\ tst.collisions
    /\ tst.pose.child = "A"
    /\ tst.pose.parent = "world"
    /\ GraspOfA \in {tst.traj.attachments[i] : i \in DOMAIN tst.traj.attachments}
    /\ Len(tst.traj.path) >= 2
    /\ ctx.pose["A"] # tst.pose.transform
    /\ ctx.q["j1"] # tst.traj.path[Len(tst.traj.path)].positions[1]
    /\ tst.log = <<>>

\* C18: from its entry on, whatever it returns, a pull call leaves the
\* door's joints at the last configuration of the door path it swept; its
\* entry writes nothing else into the context, and its attempts write
\* nothing at all: the mover's joints stay as the caller left them.
C18_PullLeavesDoorSwept ==
    /\ [](pull.pc # "idle" =>
            \A i \in DOMAIN pull.door_joints :
                ctx.q[pull.door_joints[i]]
                    = pull.door_joint_path[Len(pull.door_joint_path)][i])
    /\ [][(pull.pc = "idle" /\ pull'.pc # "idle") =>
            /\ ctx'.pose = ctx.pose
            /\ \A j \in Joints :
                  (\A i \in DOMAIN pull'.door_joints : pull'.door_joints[i] # j)
                      => ctx'.q[j] = ctx.q[j]]_vars
    /\ [][(pull.pc # "idle") => ctx' = ctx]_vars

\* A pull from door position 0 to 2 returned a result: the door is left at
\* 2, and the mover at a configuration that is neither rq1 nor rq2.
C18_Witness ==
    /\ pull.pc = "returned"
    /\ pull.result.tag = "PullResult"
    /\ pull.door_joint_path[1] = <<0>>
    /\ Len(pull.door_joint_path) = 3
    /\ ctx.q["d1"] = 2
    /\ ctx.q["j1"] = 1
    /\ <<ctx.q["j1"], ctx.q["j2"]>> # pull.result.rq1.positions
    /\ <<ctx.q["j1"], ctx.q["j2"]>> # pull.result.rq2.positions

\* The contexts that differ from c at most in the positions of the
\* trajectory's joints and in the world pose of the pose's child.
Variants(c, traj, pose) ==
    LET joints == {TrajectoryJoints(traj)[i] : i \in DOMAIN TrajectoryJoints(traj)}
    IN {[q |-> [j \in Joints |-> IF j \in joints THEN f[j] ELSE c.q[j]],
         pose |-> [c.pose EXCEPT ![pose.child] = t]] :
            f \in [joints -> Pos], t \in Transform}

\* C19: for a candidate pose hung from the world frame and a trajectory
\* without attachments, the test returns what it would have returned from
\* any context that differs from the one it was called on only in the
\* positions of the trajectory's joints and the object's world pose.
C19_ResultIgnoresPriorState ==
    (tst.pc = "returned" /\ tst.pose.parent = "world" /\ tst.traj.attachments = <<>>) =>
        \A d \in Variants(tst.before, tst.traj, tst.pose) :
            TestFn(d, tst.collisions, tst.traj, tst.pose).result = tst.result

\* A test returned true from a context in which, before the call, the
\* object stood elsewhere, the mover was at none of the trajectory's
\* configurations and none of the candidate pairs collided; from a variant
\* of that context in which they collide it returns true as well.
C19_Witness ==
    /\ tst.pc = "returned"
    /\ tst.collisions
    /\ tst.pose.parent = "world"
    /\ tst.traj.attachments = <<>>
    /\ Len(tst.traj.path) >= 2
    /\ tst.result
    /\ tst.before.pose[tst.pose.child] # tst.pose.transform
    /\ tst.before.q["j1"] = 0
    /\ ~ExistsCollidingPair(tst.before, tst.collision_pairs)
    /\ \E d \in Variants(tst.before, tst.traj, tst.pose) :
          ExistsCollidingPair(d, tst.collision_pairs)

====
